---- MODULE Spec2Model ----
(***************************************************************************)
(* ArcChain<T> of src/arc/mod.rs: an order-N Markov chain.  The table      *)
(* `map` sends a window (a Vec of `order` ArcToken<T>) to a distribution   *)
(* (a HashMap from ArcToken<T> to a usize weight).  An ArcToken<T> is an   *)
(* Option<Arc<T>>: None is the boundary sentinel, Some(t) a real token.    *)
(*                                                                         *)
(* T is only required to be Eq + Hash and the code never looks inside a    *)
(* token, so token values are the numbers 1, 2, ... and a run introduces   *)
(* them in order of first use (the first token ever fed is 1, the next     *)
(* new one is 2, ...): every other run is a renaming of one of these.      *)
(***************************************************************************)
EXTENDS Integers, Sequences, FiniteSets, TLC

\* Bounds of the model.
MaxTokens == 3     \* tokens fed over a whole run, all feed calls together
MaxOrder == 2      \* largest n passed to order(n)
MaxGen == 3        \* longest `ret` a walk is followed to
MaxIter == 2       \* largest size passed to iter_for(size)
AddMaxLen == 4     \* SpecAdditive: longest sequence fed twice
AddMaxOrder == 3   \* SpecAdditive: largest order
SampleTokens == 2  \* SpecSample: distinct tokens fed
SampleMaxLen == 2  \* SpecSample: longest sequence fed
SampleMaxFed == 5  \* SpecSample: tokens fed over a run
StrMaxLen == 4     \* SpecStr: longest string given to feed_str or read as a line

\* ArcToken<T>::None, the sentinel; real tokens are 1, 2, ...
None == 0
\* The value standing for the unreachable!() of States::next.
Unreachable == -1

VARIABLES
    map,        \* ArcChain.map
    order,      \* ArcChain.order
    pc,         \* "idle", or where the running call is: "loop", "returned", "panicked", "exhausted"
    call,       \* the running call: "none", "generate", "generate_from_token",
                \* "sized_next", "infinite_next", or "order" for an order() that panicked
    seed,       \* the token given to generate_from_token (None otherwise)
    curs,       \* generate's local `curs`
    ret,        \* generate's local `ret`
    visited,    \* the windows the running call has looked up in map, in order
    iterKind,   \* the live iterator borrowing the chain: "none", "sized", "infinite"
    iterSize,   \* SizedChainIterator.size
    iterN,      \* history: the size the live bounded iterator was made with
    yielded,    \* history: how many sequences the live bounded iterator has yielded
    fedTokens,  \* history: how many tokens feed has been given so far
    reordered   \* history: order() was called after a non-empty feed

vars == <<map, order, pc, call, seed, curs, ret, visited, iterKind, iterSize, iterN, yielded,
          fedTokens, reordered>>
chainVars == <<map, order>>
callVars == <<pc, call, seed, curs, ret, visited>>
iterVars == <<iterKind, iterSize, iterN, yielded>>
histVars == <<fedTokens, reordered>>

----------------------------------------------------------------------------
\* Vec and HashMap helpers.

\* vec!(x; n)
Repeat(x, n) == [i \in 1..n |-> x]

\* HashMap::new()
EmptyMap == [x \in {} |-> 0]

\* HashMap::insert(k, v): the value of k is replaced when k is present.
Insert(m, k, v) == [x \in (DOMAIN m) \cup {k} |-> IF x = k THEN v ELSE m[x]]

\* HashMap::entry(k).or_insert_with(HashMap::new): k keeps its value when present.
OrInsertEmpty(m, k) == IF k \in DOMAIN m THEN m ELSE Insert(m, k, EmptyMap)

\* Add with the Vacant arm lost: a token new to the distribution is dropped.
AddOccupiedOnly(dist, token) ==
    IF token \in DOMAIN dist THEN [dist EXCEPT ![token] = @ + 1] ELSE dist

\* Add that stores 1 instead of counting: an insert where += 1 was meant.
AddReplace(dist, token) == Insert(dist, token, 1)

\* States::add: the weight of token goes up by one, from 0 when absent.
Add(dist, token) ==
    IF token \in DOMAIN dist
        THEN [dist EXCEPT ![token] = @ + 1]
        ELSE Insert(dist, token, 1)

\* The first loop of States::next: the sum of the weights.
RECURSIVE SumOver(_, _)
SumOver(dist, S) ==
    IF S = {} THEN 0
    ELSE LET k == CHOOSE x \in S : TRUE IN dist[k] + SumOver(dist, S \ {k})

SumWeights(dist) == SumOver(dist, DOMAIN dist)

\* The orders in which HashMap::iter may yield the keys of a distribution.
ScanOrders(S) ==
    {p \in [1..Cardinality(S) -> S] : \A i, j \in 1..Cardinality(S) : p[i] = p[j] => i = j}

\* The scan with `sum >= cap` for the test of line 244.
RECURSIVE ScanFromGe(_, _, _, _, _)
ScanFromGe(dist, scan, i, sum, cap) ==
    IF i > Len(scan) THEN Unreachable
    ELSE LET total == sum + dist[scan[i]] IN
         IF total >= cap THEN scan[i] ELSE ScanFromGe(dist, scan, i + 1, total, cap)

\* The second loop of States::next, from entry i on with running total sum.
RECURSIVE ScanFrom(_, _, _, _, _)
ScanFrom(dist, scan, i, sum, cap) ==
    IF i > Len(scan) THEN Unreachable
    ELSE LET total == sum + dist[scan[i]] IN
         IF total > cap THEN scan[i] ELSE ScanFrom(dist, scan, i + 1, total, cap)

\* States::next for the draw cap and the iteration order scan.
StatesNext(dist, scan, cap) == ScanFrom(dist, scan, 1, 0, cap)

----------------------------------------------------------------------------
\* ArcChain::new
New ==
    /\ map = Insert(EmptyMap, Repeat(None, 1), EmptyMap)
    /\ order = 1

Init ==
    /\ New
    /\ pc = "idle" /\ call = "none" /\ seed = None
    /\ curs = <<>> /\ ret = <<>> /\ visited = <<>>
    /\ iterKind = "none" /\ iterSize = 0 /\ iterN = 0 /\ yielded = 0
    /\ fedTokens = 0 /\ reordered = FALSE

\* The chain is mutably borrowed only when no call runs and no iterator lives.
Exclusive == pc = "idle" /\ iterKind = "none"

\* order() with line 43 lost: the order is set and no start key is inserted.
OrderNoInsert(n) ==
    /\ Exclusive
    /\ n > 0
    /\ order' = n
    /\ map' = map
    /\ reordered' = (reordered \/ fedTokens > 0)
    /\ UNCHANGED <<callVars, iterVars, fedTokens>>

\* order() with the assert of line 41 lost: any usize is stored.
OrderNoAssert(n) ==
    /\ Exclusive
    /\ order' = n
    /\ map' = Insert(map, Repeat(None, n), EmptyMap)
    /\ reordered' = (reordered \/ fedTokens > 0)
    /\ UNCHANGED <<callVars, iterVars, fedTokens>>

\* ArcChain::order.  assert!(order > 0) panics before anything is stored.
Order(n) ==
    /\ Exclusive
    /\ IF n > 0
          THEN /\ order' = n
               /\ map' = Insert(map, Repeat(None, n), EmptyMap)
               /\ reordered' = (reordered \/ fedTokens > 0)
               /\ UNCHANGED <<callVars, iterVars, fedTokens>>
          ELSE /\ pc' = "panicked" /\ call' = "order"
               /\ UNCHANGED <<chainVars, seed, curs, ret, visited, iterVars, histVars>>

\* ArcChain::is_empty
IsEmpty(m, k) == DOMAIN m[Repeat(None, k)] = {}

\* The loop of feed with map.insert(key, HashMap::new()) for line 64: the
\* distribution of a key that is present is thrown away.
RECURSIVE FeedWindowsInsert(_, _, _, _)
FeedWindowsInsert(m, toks, k, i) ==
    IF i + k > Len(toks) THEN m
    ELSE LET key == SubSeq(toks, i, i + k - 1)
             m1 == Insert(m, key, EmptyMap)
             m2 == [m1 EXCEPT ![key] = Add(@, toks[i + k])]
         IN FeedWindowsInsert(m2, toks, k, i + 1)

\* The loop of ArcChain::feed over toks.windows(order + 1), from window i on.
RECURSIVE FeedWindows(_, _, _, _)
FeedWindows(m, toks, k, i) ==
    IF i + k > Len(toks) THEN m
    ELSE LET key == SubSeq(toks, i, i + k - 1)
             m1 == OrInsertEmpty(m, key)
             m2 == [m1 EXCEPT ![key] = Add(@, toks[i + k])]
         IN FeedWindows(m2, toks, k, i + 1)

\* feed with line 62 lost: no trailing sentinel is pushed.
FeedMapNoEnd(m, k, tokens) ==
    IF tokens = <<>> THEN m
    ELSE FeedWindows(m, Repeat(None, k) \o tokens, k, 1)

\* feed with line 57 lost: an empty input is fed like any other.
FeedMapNoEarlyReturn(m, k, tokens) ==
    FeedWindows(m, Repeat(None, k) \o tokens \o <<None>>, k, 1)

\* ArcChain::feed as a function of the table
FeedMap(m, k, tokens) ==
    IF tokens = <<>> THEN m
    ELSE FeedWindows(m, Repeat(None, k) \o tokens \o <<None>>, k, 1)

\* The real tokens of the table: every fed token ends some key.
UsedTokens(m) == UNION {{w[i] : i \in 1..Len(w)} : w \in DOMAIN m} \ {None}

\* Tokens appear in order of first use: s[i] is an old token or the next new one.
FirstUseOrder(s, used) ==
    \A i \in 1..Len(s) :
        \A t \in 1..(s[i] - 1) : t \in used \/ \E j \in 1..(i - 1) : s[j] = t

\* The sequences a feed call may be given within the bounds.
FeedInputs ==
    LET room == MaxTokens - fedTokens
        used == UsedTokens(map)
    IN {s \in UNION {[1..n -> 1..MaxTokens] : n \in 0..room} : FirstUseOrder(s, used)}

\* ArcChain::feed
Feed(tokens) ==
    /\ Exclusive
    /\ map' = FeedMap(map, order, tokens)
    /\ fedTokens' = fedTokens + Len(tokens)
    /\ UNCHANGED <<order, callVars, iterVars, reordered>>

\* The start of a generate() call: lines 74-75.
StartGenerate(who) ==
    /\ call' = who
    /\ seed' = None
    /\ ret' = <<>>
    /\ curs' = Repeat(None, order)
    /\ visited' = <<>>
    /\ pc' = "loop"

\* ArcChain::generate, called on the chain
Generate ==
    /\ pc = "idle"
    /\ StartGenerate("generate")
    /\ UNCHANGED <<chainVars, iterVars, histVars>>

\* The tokens generate_from_token may be given: the fed ones and an unseen one.
SeedInputs == 1..(Cardinality(UsedTokens(map)) + 1)

\* generate_from_token with the contains_key test of line 92 lost.
GenerateFromTokenNoCheck(token) ==
    /\ pc = "idle"
    /\ call' = "generate_from_token"
    /\ seed' = token
    /\ visited' = <<>>
    /\ ret' = <<token>>
    /\ curs' = Repeat(token, order)
    /\ pc' = "loop"
    /\ UNCHANGED <<chainVars, iterVars, histVars>>

\* generate_from_token looking its seed up with entry().or_insert_with: the
\* seed window becomes a key.
GenerateFromTokenInserting(token) ==
    /\ pc = "idle"
    /\ call' = "generate_from_token"
    /\ seed' = token
    /\ visited' = <<>>
    /\ map' = OrInsertEmpty(map, Repeat(token, order))
    /\ ret' = <<token>>
    /\ curs' = Repeat(token, order)
    /\ pc' = "loop"
    /\ UNCHANGED <<order, iterVars, histVars>>

\* ArcChain::generate_from_token, up to the loop
GenerateFromToken(token) ==
    /\ pc = "idle"
    /\ call' = "generate_from_token"
    /\ seed' = token
    /\ visited' = <<>>
    /\ IF Repeat(token, order) \notin DOMAIN map
          THEN /\ ret' = <<>>
               /\ curs' = <<>>
               /\ pc' = "returned"
          ELSE /\ ret' = <<token>>
               /\ curs' = Repeat(token, order)
               /\ pc' = "loop"
    /\ UNCHANGED <<chainVars, iterVars, histVars>>

\* The slide with the slice off by one, curs[0..order - 1]: the oldest slot
\* is kept and the newest dropped.
SlideKeepOldest(window, k, next) == SubSeq(window, 1, k - 1) \o <<next>>

\* curs = curs[1..order].to_vec(); curs.push(next)
Slide(window, k, next) == SubSeq(window, 2, k) \o <<next>>

\* The push without the if let: the sentinel that ends the walk is pushed too.
PushAlways(out, next) == Append(out, next)

\* if let Some(next) = next { ret.push(next) }
Push(out, next) == IF next # None THEN Append(out, next) ELSE out

\* One turn of the loop of generate and of generate_from_token.  Indexing the
\* map with a window that is no key panics, and so does gen_range(0, 0).
Loop ==
    /\ pc = "loop"
    /\ visited' = Append(visited, curs)
    /\ IF curs \notin DOMAIN map
          THEN pc' = "panicked" /\ UNCHANGED <<curs, ret>>
          ELSE LET dist == map[curs]
                   sum == SumWeights(dist)
               IN IF sum = 0
                     THEN pc' = "panicked" /\ UNCHANGED <<curs, ret>>
                     ELSE \E scan \in ScanOrders(DOMAIN dist), cap \in 0..(sum - 1) :
                            LET next == StatesNext(dist, scan, cap) IN
                            IF next = Unreachable
                               THEN pc' = "panicked" /\ UNCHANGED <<curs, ret>>
                               ELSE /\ next = None \/ Len(ret) < MaxGen
                                    /\ curs' = Slide(curs, order, next)
                                    /\ ret' = Push(ret, next)
                                    /\ pc' = IF curs'[order] = None THEN "returned" ELSE "loop"
    /\ UNCHANGED <<chainVars, call, seed, iterVars, histVars>>

\* The caller takes the result; the locals of the call are gone.  A pull of
\* the bounded iterator that returns Some(sequence) has yielded one more.
Return ==
    /\ pc \in {"returned", "exhausted"}
    /\ pc' = "idle" /\ call' = "none" /\ seed' = None
    /\ curs' = <<>> /\ ret' = <<>> /\ visited' = <<>>
    /\ yielded' = IF call = "sized_next" /\ pc = "returned" THEN yielded + 1 ELSE yielded
    /\ UNCHANGED <<chainVars, iterKind, iterSize, iterN, histVars>>

\* ArcChain::iter
Iter ==
    /\ pc = "idle" /\ iterKind = "none"
    /\ iterKind' = "infinite" /\ iterSize' = 0 /\ iterN' = 0 /\ yielded' = 0
    /\ UNCHANGED <<chainVars, callVars, histVars>>

\* ArcChain::iter_for
IterFor(size) ==
    /\ pc = "idle" /\ iterKind = "none"
    /\ iterKind' = "sized" /\ iterSize' = size /\ iterN' = size /\ yielded' = 0
    /\ UNCHANGED <<chainVars, callVars, histVars>>

\* SizedChainIterator::next with the test of line 188 lost: the count is
\* taken down and a sequence generated also when nothing remains.
SizedNextNoTest ==
    /\ pc = "idle" /\ iterKind = "sized"
    /\ iterSize' = iterSize - 1
    /\ StartGenerate("sized_next")
    /\ UNCHANGED <<chainVars, iterKind, iterN, yielded, histVars>>

\* SizedChainIterator::next
SizedNext ==
    /\ pc = "idle" /\ iterKind = "sized"
    /\ IF iterSize > 0
          THEN /\ iterSize' = iterSize - 1
               /\ StartGenerate("sized_next")
          ELSE /\ iterSize' = iterSize
               /\ pc' = "exhausted" /\ call' = "sized_next"
               /\ UNCHANGED <<seed, curs, ret, visited>>
    /\ UNCHANGED <<chainVars, iterKind, iterN, yielded, histVars>>

\* InfiniteChainIterator::next
InfiniteNext ==
    /\ pc = "idle" /\ iterKind = "infinite"
    /\ StartGenerate("infinite_next")
    /\ UNCHANGED <<chainVars, iterVars, histVars>>

\* The iterator goes out of scope and its borrow of the chain ends.
DropIter ==
    /\ pc = "idle" /\ iterKind # "none"
    /\ iterKind' = "none" /\ iterSize' = 0 /\ iterN' = 0 /\ yielded' = 0
    /\ UNCHANGED <<chainVars, callVars, histVars>>

Next ==
    \/ \E n \in 0..MaxOrder : Order(n)
    \/ \E s \in FeedInputs : Feed(s)
    \/ Generate
    \/ \E x \in SeedInputs : GenerateFromToken(x)
    \/ Loop
    \/ Return
    \/ Iter
    \/ \E n \in 0..MaxIter : IterFor(n)
    \/ SizedNext
    \/ InfiniteNext
    \/ DropIter

Spec == Init /\ [][Next]_vars

----------------------------------------------------------------------------
\* A fresh model of some order fed one sequence, then the same sequence again.

\* The table of ArcChain::new().order(k)
FreshTable(k) == Insert(Insert(EmptyMap, Repeat(None, 1), EmptyMap), Repeat(None, k), EmptyMap)

\* The non-empty sequences fed in SpecAdditive.
AddInputs ==
    {s \in UNION {[1..n -> 1..AddMaxLen] : n \in 1..AddMaxLen} : FirstUseOrder(s, {})}

\* order(n) on the model new() returned
OrderFresh(n) ==
    /\ fedTokens = 0 /\ order = 1 /\ DOMAIN map = {Repeat(None, 1)}
    /\ Order(n)

\* The first feed(tokens) of the model
FeedOnce(tokens) ==
    /\ fedTokens = 0
    /\ Feed(tokens)

\* feed(tokens) on the model that was fed tokens once and nothing else
FeedAgain(tokens) ==
    /\ fedTokens = Len(tokens)
    /\ map = FeedMap(FreshTable(order), order, tokens)
    /\ Feed(tokens)

NextAdditive ==
    \/ \E n \in 1..AddMaxOrder : OrderFresh(n)
    \/ \E s \in AddInputs : FeedOnce(s)
    \/ \E s \in AddInputs : FeedAgain(s)

SpecAdditive == Init /\ [][NextAdditive]_vars

----------------------------------------------------------------------------
\* The scenario order 1, feed ["the", "cat", "sat"], feed ["the", "dog", "ran"],
\* with the = 1, cat = 2, sat = 3, dog = 4, ran = 5, and every reading call.

TheCatSat == <<1, 2, 3>>
TheDogRan == <<1, 4, 5>>

\* feed(["the", "cat", "sat"]) on the model new() returned
FeedFirst ==
    /\ fedTokens = 0
    /\ Feed(TheCatSat)

\* feed(["the", "dog", "ran"]) after it
FeedSecond ==
    /\ fedTokens = Len(TheCatSat)
    /\ Feed(TheDogRan)

NextScenario ==
    \/ FeedFirst
    \/ FeedSecond
    \/ Generate
    \/ \E x \in SeedInputs : GenerateFromToken(x)
    \/ Loop
    \/ Return
    \/ Iter
    \/ \E n \in 0..MaxIter : IterFor(n)
    \/ SizedNext
    \/ InfiniteNext
    \/ DropIter

SpecScenario == Init /\ [][NextScenario]_vars

----------------------------------------------------------------------------
\* ArcChain<String>: feed_str and the lines of feed_file.  A string is a
\* sequence of characters, here a space, a tab and the letter a.

Chars == {" ", "\t", "a"}

\* char::is_whitespace, on Chars
IsWhitespace(c) == c \in {" ", "\t"}

\* The strings of the model.
Strings == UNION {[1..n -> Chars] : n \in 0..StrMaxLen}

\* The String a token holds, as a number: equal strings, and only they, give
\* the same token (bijective base 2 over the characters a word can hold,
\* plus one, so that the empty string is token 1 and no token is None).
RECURSIVE StrToken(_)
StrToken(word) ==
    IF word = <<>> THEN 1
    ELSE (IF word[Len(word)] = "a" THEN 1 ELSE 2)
            + 2 * (StrToken(SubSeq(word, 1, Len(word) - 1)) - 1) + 1

\* .map(|s| s.to_owned()).collect(): the tokens of a sequence of fragments
Collect(fragments) == [i \in 1..Len(fragments) |-> StrToken(fragments[i])]

\* str::split(' '): the fragments between single spaces, empty ones included;
\* a string without a space, the empty string too, is one fragment.
RECURSIVE SplitSpace(_)
SplitSpace(str) ==
    IF \A i \in 1..Len(str) : str[i] # " " THEN <<str>>
    ELSE LET i == CHOOSE j \in 1..Len(str) :
                     str[j] = " " /\ \A h \in 1..(j - 1) : str[h] # " "
         IN <<SubSeq(str, 1, i - 1)>> \o SplitSpace(SubSeq(str, i + 1, Len(str)))

\* str::split_whitespace().filter(|word| !word.is_empty()): the maximal runs
\* of characters that are not whitespace.
RECURSIVE SplitWhitespace(_)
SplitWhitespace(str) ==
    IF str = <<>> THEN <<>>
    ELSE IF IsWhitespace(str[1]) THEN SplitWhitespace(Tail(str))
    ELSE LET ends == {j \in 1..Len(str) :
                        /\ \A h \in 1..j : ~IsWhitespace(str[h])
                        /\ (j = Len(str) \/ IsWhitespace(str[j + 1]))}
             j == CHOOSE x \in ends : TRUE
         IN <<SubSeq(str, 1, j)>> \o SplitWhitespace(SubSeq(str, j + 1, Len(str)))

\* ArcChain::feed_str, the first feed of the model
FeedStr(str) ==
    /\ fedTokens = 0
    /\ Feed(Collect(SplitSpace(str)))

\* The body of the loop of ArcChain::feed_file for one line, the first feed
FeedLine(line) ==
    /\ fedTokens = 0
    /\ Feed(Collect(SplitWhitespace(line)))

NextStr ==
    \/ \E n \in 1..MaxOrder : OrderFresh(n)
    \/ \E str \in Strings : FeedStr(str)
    \/ \E line \in Strings : FeedLine(line)

SpecStr == Init /\ [][NextStr]_vars

----------------------------------------------------------------------------
\* Distributions built by short feeds at order 1, and generate() sampling them.

\* The sequences fed in SpecSample.
SampleInputs ==
    {s \in UNION {[1..n -> 1..SampleTokens] : n \in 1..SampleMaxLen} :
        fedTokens + Len(s) <= SampleMaxFed}

NextSample ==
    \/ \E s \in SampleInputs : Feed(s)
    \/ Generate
    \/ Loop
    \/ Return

SpecSample == Init /\ [][NextSample]_vars

----------------------------------------------------------------------------
\* Notions the claims are stated with.

\* The start window: `order` sentinels.
StartWindow == Repeat(None, order)

\* A window made of sentinels only.
AllSentinel(w) == \A i \in 1..Len(w) : w[i] = None

\* The weight of next-token t under window w, 0 when the entry is absent.
Weight(m, w, t) == IF w \in DOMAIN m /\ t \in DOMAIN m[w] THEN m[w][t] ELSE 0

\* The (window, next-token) entries of a table.
Entries(m) == {e \in (DOMAIN m) \X (0..MaxTokens) : e[2] \in DOMAIN m[e[1]]}

\* A non-empty sequence has been fed.
Fed == fedTokens > 0

\* C1: the window of `order` sentinels is a key of the table in every
\* reachable state, so the lookup of is_empty() finds its key.
C1_StartKeyPresent == StartWindow \in DOMAIN map

\* C1 witness: the order was changed to 2 on a table that holds data.
C1_Witness == Fed /\ reordered /\ order = 2 /\ StartWindow \in DOMAIN map

\* C2 as stated: once a non-empty sequence has been fed, every key maps to a
\* distribution with at least one entry.
C2_Original == Fed => \A w \in DOMAIN map : DOMAIN map[w] # {}

\* C2 amended: every key that is not an all-sentinel window maps to a
\* distribution with at least one entry (the all-sentinel keys, [None] of
\* new() and one per order() call, may be empty).
C2_NonStartKeysNonEmpty ==
    \A w \in DOMAIN map : ~AllSentinel(w) => DOMAIN map[w] # {}

\* C2 witness: data fed at order 2, with the [None] key of new() still empty.
C2_Witness ==
    /\ Fed /\ order = 2
    /\ \E w \in DOMAIN map : ~AllSentinel(w) /\ DOMAIN map[w] # {}
    /\ DOMAIN map[<<None>>] = {}

\* C3 as stated: order(n) keeps every (window, next-token, weight) entry and
\* changes the table only by making the all-sentinel key of length n present.
C3_OrderKeepsData ==
    [][\A n \in 1..MaxOrder : Order(n) =>
          /\ \A e \in Entries(map) : Weight(map', e[1], e[2]) = map[e[1]][e[2]]
          /\ map' = OrInsertEmpty(map, Repeat(None, n))]_vars

\* C4 as stated: is_empty() is true exactly when no non-empty sequence has
\* ever been fed.
C4_EmptyIffNeverFed == IsEmpty(map, order) <=> ~Fed

\* The extended sequence of feed: k sentinels, the tokens, one sentinel.
Extended(k, tokens) == Repeat(None, k) \o tokens \o <<None>>

\* The positions of the extended sequence E where window w is followed by t.
Hits(E, k, w, t) ==
    {i \in 1..(Len(E) - k) : SubSeq(E, i, i + k - 1) = w /\ E[i + k] = t}

\* The windows of the extended sequence E.
WindowsOf(E, k) == {SubSeq(E, i, i + k - 1) : i \in 1..(Len(E) - k)}

\* The table of a fresh order-1 model fed [1, 2, 3].
TableABC ==
    (<<None>> :> (1 :> 1)) @@ (<<1>> :> (2 :> 1)) @@
    (<<2>> :> (3 :> 1)) @@ (<<3>> :> (None :> 1))

\* C5: feed of a non-empty sequence raises, for each position of the extended
\* sequence, the weight of the next token under the window before it by one
\* (key and entry created when absent) and changes nothing else; [1, 2, 3]
\* fed at order 1 into a fresh table gives exactly TableABC.
C5_FeedMatchesReference ==
    [][\A s \in FeedInputs : (s # <<>> /\ Feed(s)) =>
          LET E == Extended(order, s) IN
          /\ DOMAIN map' = (DOMAIN map) \cup WindowsOf(E, order)
          /\ \A w \in DOMAIN map' :
                /\ DOMAIN map'[w] =
                      (IF w \in DOMAIN map THEN DOMAIN map[w] ELSE {})
                         \cup {t \in 0..MaxTokens : Hits(E, order, w, t) # {}}
                /\ \A t \in 0..MaxTokens :
                      Weight(map', w, t) =
                         Weight(map, w, t) + Cardinality(Hits(E, order, w, t))
          /\ (map = (<<None>> :> EmptyMap) /\ order = 1 /\ s = <<1, 2, 3>>)
                => map' = TableABC]_vars

\* C5 witness: [1, 2, 3] has been fed at order 1 into a fresh table.
C5_Witness == order = 1 /\ fedTokens = 3 /\ map = TableABC

\* The calls that run generate(): the method itself and the two iterators.
GenCalls == {"generate", "sized_next", "infinite_next"}

\* out is a walk of table m at order k: from the k-sentinel window on, every
\* token of out has positive weight under the k slots before it, and so has
\* the sentinel under the window after the last token.
ValidWalk(m, k, out) ==
    LET E == Extended(k, out) IN
    \A i \in 1..(Len(out) + 1) : Weight(m, SubSeq(E, i, i + k - 1), E[i + k]) > 0

\* C6: every sequence generate() returns holds no sentinel and is a valid
\* walk of the table from the start window to a sentinel draw (checked in
\* every reachable state, also after order changes).
C6_GenerateValidWalk ==
    (pc = "returned" /\ call \in GenCalls) =>
        /\ \A i \in 1..Len(ret) : ret[i] # None
        /\ ValidWalk(map, order, ret)

\* C6 witness: generate() returned [1, 1, 1], a sequence that was never fed.
C6_Witness ==
    /\ pc = "returned" /\ call = "generate" /\ ~reordered
    /\ ret = <<1, 1, 1>>

\* The windows one real-token draw of positive weight leads to from w.
Successors(m, w) ==
    IF w \in DOMAIN m
        THEN {Slide(w, Len(w), t) : t \in {x \in DOMAIN m[w] : x # None /\ m[w][x] > 0}}
        ELSE {}

\* The windows a walk from the windows of `seen` can look up.
RECURSIVE Reach(_, _)
Reach(m, seen) ==
    LET more == (UNION {Successors(m, w) : w \in seen}) \ seen IN
    IF more = {} THEN seen ELSE Reach(m, seen \cup more)

\* A sentinel draw is reachable from w along draws of positive weight.
CanEnd(m, w) == \E v \in Reach(m, {w}) : Weight(m, v, None) > 0

\* C7: on a table built by feed alone (the order set before the first feed,
\* one non-empty sequence fed at least), a sentinel draw is reachable from
\* every window the walk of generate() can reach.
C7_SentinelReachable ==
    (Fed /\ ~reordered) => \A w \in Reach(map, {StartWindow}) : CanEnd(map, w)

\* C7 witness: such a table with a cycle, where walks of any length exist.
C7_Witness ==
    /\ Fed /\ ~reordered /\ order = 2
    /\ \E w \in Reach(map, {StartWindow}) :
          \E v \in Successors(map, w) : w \in Reach(map, {v})

\* C8: generate_from_token(x), when the window of `order` copies of x is no
\* key, returns the empty sequence: it does not panic and looks up nothing.
C8_UnseenSeedReturnsEmpty ==
    (call = "generate_from_token" /\ Repeat(seed, order) \notin DOMAIN map) =>
        (pc = "returned" /\ ret = <<>> /\ visited = <<>>)

\* C8 witness: x was fed, but never twice in a row, and the order is 2.
C8_Witness ==
    /\ call = "generate_from_token" /\ pc = "returned"
    /\ order = 2 /\ seed \in UsedTokens(map)
    /\ Repeat(seed, order) \notin DOMAIN map

\* C9: generate() on a model never fed a non-empty sequence does not return:
\* its first turn of the loop panics, with nothing pushed to ret and the
\* table and the order as they were.
C9_GenerateOnEmptyPanics ==
    /\ []((~Fed /\ call \in GenCalls /\ pc # "exhausted") =>
             (pc \in {"loop", "panicked"} /\ ret = <<>> /\ Len(visited) <= 1))
    /\ [][(~Fed /\ call \in GenCalls /\ pc = "loop") =>
             (pc' = "panicked" /\ ret' = <<>> /\ map' = map /\ order' = order)]_vars

\* C9 witness: generate() panicked on a never-fed model of order 2.
C9_Witness == ~Fed /\ call = "generate" /\ pc = "panicked" /\ order = 2

\* C10: a step that starts, continues or ends a call of generate(),
\* generate_from_token(x) or a pull of an iterator leaves the table and the
\* order as they were.
C10_GenerationReadOnly ==
    [][(pc # "idle" \/ pc' # "idle") => (map' = map /\ order' = order)]_vars

\* C10 witness: a pull of the bounded iterator returned a sequence.
C10_Witness == call = "sized_next" /\ pc = "returned" /\ ret # <<>>

\* A pull of the bounded iterator is running or has just returned a sequence.
PullInFlight == call = "sized_next" /\ pc \in {"loop", "returned", "panicked"}

\* C11: the iterator of iter_for(N) yields exactly N sequences and then
\* signals exhaustion on every later pull: the sequences yielded, the one
\* being generated and the remaining count add up to N, the count never
\* goes below 0, exhaustion is signalled only after N yields, and a pull
\* takes the count down by exactly 1 when it is positive and signals
\* exhaustion, leaving it 0, when it is 0.
C11_SizedIteratorYieldsN ==
    /\ [](iterKind = "sized" =>
            /\ iterSize >= 0
            /\ iterN = yielded + iterSize + (IF PullInFlight THEN 1 ELSE 0)
            /\ (pc = "exhausted" => (yielded = iterN /\ iterSize = 0)))
    /\ [][SizedNext =>
            IF iterSize > 0
               THEN iterSize' = iterSize - 1 /\ pc' = "loop"
               ELSE iterSize' = 0 /\ pc' = "exhausted"]_vars

\* C11 witness: iter_for(2) has yielded two sequences and signals exhaustion.
C11_Witness ==
    /\ iterKind = "sized" /\ iterN = 2 /\ yielded = 2
    /\ pc = "exhausted" /\ iterSize = 0

\* C12: order(0) panics at the call and changes neither the stored order nor
\* the table, so the stored order is at least 1 in every reachable state.
C12_OrderZeroPanics ==
    /\ [](order >= 1)
    /\ [][Order(0) => (pc' = "panicked" /\ map' = map /\ order' = order)]_vars

\* C12 witness: order(0) panicked on a model of order 2 that holds data.
C12_Witness == call = "order" /\ pc = "panicked" /\ Fed /\ order = 2

\* C13: feed leaves the order unchanged, removes no key and no entry and
\* lowers no weight; feed of the empty sequence leaves the table unchanged.
C13_FeedOnlyGrows ==
    [][\A s \in FeedInputs : Feed(s) =>
          /\ order' = order
          /\ DOMAIN map \subseteq DOMAIN map'
          /\ \A e \in Entries(map) : Weight(map', e[1], e[2]) >= map[e[1]][e[2]]
          /\ (s = <<>> => map' = map)]_vars

\* C13 witness: feeds have raised a weight to 2 on a table of order 2.
C13_Witness ==
    /\ order = 2 /\ fedTokens = 3
    /\ \E e \in Entries(map) : ~AllSentinel(e[1]) /\ map[e[1]][e[2]] = 2

\* The table m with every weight doubled.
Doubled(m) == [w \in DOMAIN m |-> [t \in DOMAIN m[w] |-> 2 * m[w][t]]]

\* C14: feeding a non-empty sequence S a second time into a fresh order-k
\* model that was fed S gives the keys and entries of the single feed with
\* every weight doubled.
C14_FeedTwiceDoubles ==
    [][\A s \in AddInputs : FeedAgain(s) =>
          /\ map' = Doubled(map)
          /\ map' = Doubled(FeedMap(FreshTable(order), order, s))]_vars

\* C14 witness: [1, 1, 1, 1] was fed twice at order 2; a weight of 2 became 4.
C14_Witness ==
    /\ order = 2 /\ fedTokens = 8
    /\ Weight(map, <<1, 1>>, 1) = 4 /\ Weight(map, <<1, 1>>, None) = 2

\* What States::next can return on dist, over every draw and scan order.
NextSet(dist) ==
    {StatesNext(dist, scan, cap) :
        scan \in ScanOrders(DOMAIN dist), cap \in 0..(SumWeights(dist) - 1)}

\* The sequences the loop of generate() can return from window w with out
\* already pushed, drawing at most fuel more real tokens.
RECURSIVE Outcomes(_, _, _, _, _)
Outcomes(m, k, w, out, fuel) ==
    IF w \notin DOMAIN m THEN {}
    ELSE UNION {IF t = None THEN {out}
                ELSE IF fuel = 0 THEN {}
                ELSE Outcomes(m, k, Slide(w, k, t), Push(out, t), fuel - 1) :
                   t \in NextSet(m[w])}

\* C15: after the two feeds at order 1 the start window maps to {the: 2} and
\* [the] to {cat: 1, dog: 1}; the sequences generate() can return are exactly
\* [the, cat, sat] and [the, dog, ran], and every call of generate() returns
\* one of them (no panic, no walk cut short by MaxGen).
C15_TwoSentences ==
    fedTokens = Len(TheCatSat) + Len(TheDogRan) =>
        /\ map[<<None>>] = (1 :> 2)
        /\ map[<<1>>] = (2 :> 1) @@ (4 :> 1)
        /\ Outcomes(map, order, StartWindow, <<>>, Cardinality(DOMAIN map))
              = {TheCatSat, TheDogRan}
        /\ call \in GenCalls =>
              /\ pc # "panicked"
              /\ pc = "returned" => ret \in {TheCatSat, TheDogRan}
              /\ (pc = "loop" /\ Len(ret) >= MaxGen) => DOMAIN map[curs] = {None}

\* C15 witness: generate() returned [the, dog, ran].
C15_Witness ==
    /\ fedTokens = Len(TheCatSat) + Len(TheDogRan)
    /\ call = "generate" /\ pc = "returned" /\ ret = TheDogRan

\* C16 as stated: feed_str(s) feeds the maximal non-whitespace fragments of
\* s, so no empty-string token ever enters the table (and feed_str("")
\* leaves the table unchanged).
C16_FeedStrFeedsWords ==
    /\ [](StrToken(<<>>) \notin UsedTokens(map))
    /\ [][\A str \in Strings : FeedStr(str) =>
             map' = FeedMap(map, order, Collect(SplitWhitespace(str)))]_vars

\* The draws of [0, sum) for which the scan of dist in order scan returns t.
DrawsFor(dist, scan, t) ==
    {cap \in 0..(SumWeights(dist) - 1) : StatesNext(dist, scan, cap) = t}

\* C17: on every non-empty distribution of the table (weights all >= 1),
\* for every scan order, every draw of [0, sum) returns an entry of the
\* distribution, never the unreachable branch, and the number of draws that
\* return an entry is the weight of the entry.
C17_SamplingByWeight ==
    \A w \in DOMAIN map :
        LET dist == map[w] IN
        (DOMAIN dist # {} /\ \A t \in DOMAIN dist : dist[t] >= 1) =>
            \A scan \in ScanOrders(DOMAIN dist) :
                /\ \A cap \in 0..(SumWeights(dist) - 1) :
                      StatesNext(dist, scan, cap) \in DOMAIN dist
                /\ \A t \in DOMAIN dist :
                      Cardinality(DrawsFor(dist, scan, t)) = dist[t]

\* C17 witness: generate() has sampled a distribution of three entries, the
\* sentinel among them, with weights 2, 1 and 1.
C17_Witness ==
    /\ call = "generate" /\ pc = "returned" /\ Len(visited) = 2
    /\ map[visited[2]] = (None :> 2) @@ (1 :> 1) @@ (2 :> 1)

\* The window is a key of the table and its distribution can be sampled.
Samplable(m, w) == w \in DOMAIN m /\ DOMAIN m[w] # {} /\ SumWeights(m[w]) > 0

\* C18: on a model whose order was set only before the first feed and that
\* was fed a non-empty sequence, every window generate() can reach is a key
\* with a non-empty distribution, and no call of generate() panics: every
\* window it has looked up was such a key.
C18_WalkStaysInTable ==
    (Fed /\ ~reordered) =>
        /\ \A w \in Reach(map, {StartWindow}) : Samplable(map, w)
        /\ call \in GenCalls =>
              /\ pc # "panicked"
              /\ \A i \in 1..Len(visited) : Samplable(map, visited[i])

\* C18 witness: generate() returned after three lookups at order 2, on a
\* table whose walk can reach four windows or more.
C18_Witness ==
    /\ Fed /\ ~reordered /\ order = 2
    /\ call = "generate" /\ pc = "returned" /\ Len(visited) >= 3
    /\ Cardinality(Reach(map, {StartWindow})) >= 4

\* C19: in every reachable state, order changes after data included,
\* generate_from_token(x) does not panic: either it returned the empty
\* sequence without a lookup, or every window it looked up is a key with a
\* non-empty distribution and its sequence starts with x and holds no sentinel.
C19_FromTokenNeverFails ==
    call = "generate_from_token" =>
        /\ pc # "panicked"
        /\ \/ pc = "returned" /\ ret = <<>> /\ visited = <<>>
           \/ /\ \A i \in 1..Len(visited) : Samplable(map, visited[i])
              /\ ret # <<>> /\ ret[1] = seed
              /\ \A i \in 1..Len(ret) : ret[i] # None

\* C19 witness: an order change emptied the start distribution of a table
\* with data, where generate() would panic, and generate_from_token(x)
\* returned x followed by another token.
C19_Witness ==
    /\ Fed /\ reordered /\ DOMAIN map[StartWindow] = {}
    /\ call = "generate_from_token" /\ pc = "returned"
    /\ Len(ret) >= 2 /\ ret[1] = seed

====
